---- MODULE Spec2Model ----
(***************************************************************************)
(* compute_radiance of tensorflow_graphics/rendering/volumetric/           *)
(* ray_radiance.py as a state machine: one action per statement of the     *)
(* function body, the tensors it builds as the state.                      *)
(*                                                                         *)
(* Numbers.  The density channel is held in units of ln 2 and distances    *)
(* are integers, so exp(-sigma * distance) is the exact power of two       *)
(* 2^-(sigma * distance).  Every later value is a polynomial in the        *)
(* stabilising constant eps = 1e-10 with dyadic coefficients, held         *)
(* exactly as [e, c]: (c[1] + c[2]*eps + c[3]*eps^2 + ...) / 2^e.          *)
(* Two such numbers are ordered by the lowest-order coefficient in which   *)
(* they differ; this is the order of their values for eps = 1e-10 because  *)
(* every coefficient is an integer below 2^31 < 1e10 / 2.                  *)
(***************************************************************************)
EXTENDS Integers, Sequences, FiniteSets, TLC

\* Largest number of samples on a ray of the value-enumerated inputs.
MaxN == 3

\* Largest distance between two samples of the value-enumerated inputs.
MaxDist == 1

(***************************************************************************)
(* Exact arithmetic on polynomials in eps with dyadic coefficients.        *)
(***************************************************************************)
Max(a, b) == IF a >= b THEN a ELSE b

Coef(c, k) == IF k <= Len(c) THEN c[k] ELSE 0

\* The sequence f itself, with its elements computed once.
Strict(f) == SubSeq(f, 1, Len(f))

RECURSIVE StripZeros(_)
StripZeros(c) ==
  IF c = <<>> THEN <<>>
  ELSE IF c[Len(c)] = 0 THEN StripZeros(SubSeq(c, 1, Len(c) - 1))
  ELSE c

RECURSIVE Reduce(_, _)
Reduce(e, c) ==
  IF e > 0 /\ (\A k \in 1..Len(c) : c[k] % 2 = 0)
  THEN Reduce(e - 1, Strict([k \in 1..Len(c) |-> c[k] \div 2]))
  ELSE [e |-> e, c |-> c]

Norm(e, c) == Reduce(e, StripZeros(Strict(c)))

FromInt(z) == Norm(0, <<z>>)

NZero == FromInt(0)

NOne == FromInt(1)

\* The literal 1e-10 of line 73.
Epsilon == Norm(0, <<0, 1>>)

NAdd(a, b) ==
  LET e == Max(a.e, b.e)
      n == Max(Len(a.c), Len(b.c))
  IN  Norm(e, [k \in 1..n |-> Coef(a.c, k) * 2^(e - a.e) + Coef(b.c, k) * 2^(e - b.e)])

NNeg(a) == [e |-> a.e, c |-> Strict([k \in 1..Len(a.c) |-> 0 - a.c[k]])]

NSub(a, b) == NAdd(a, NNeg(b))

RECURSIVE ConvAt(_, _, _, _)
\* sum over i in 1..m of a[i] * b[k + 1 - i]
ConvAt(a, b, k, m) ==
  IF m = 0 THEN 0 ELSE ConvAt(a, b, k, m - 1) + Coef(a, m) * (IF k + 1 - m >= 1 THEN Coef(b, k + 1 - m) ELSE 0)

NMul(a, b) ==
  IF a.c = <<>> \/ b.c = <<>> THEN NZero
  ELSE Norm(a.e + b.e, [k \in 1..(Len(a.c) + Len(b.c) - 1) |-> ConvAt(a.c, b.c, k, k)])

RECURSIVE SignOf(_, _)
SignOf(c, k) ==
  IF k > Len(c) THEN 0
  ELSE IF c[k] > 0 THEN 1
  ELSE IF c[k] < 0 THEN 0 - 1
  ELSE SignOf(c, k + 1)

NSign(a) == SignOf(a.c, 1)

NLe(a, b) == NSign(NSub(b, a)) >= 0

NLt(a, b) == NSign(NSub(b, a)) > 0

RECURSIVE NPow(_, _)
NPow(a, n) == IF n = 0 THEN NOne ELSE NMul(a, NPow(a, n - 1))

RECURSIVE NSum(_)
NSum(s) == IF s = <<>> THEN NZero ELSE NAdd(NSum(SubSeq(s, 1, Len(s) - 1)), s[Len(s)])

(***************************************************************************)
(* Tensors: a shape and the elements in row-major order.                   *)
(***************************************************************************)
RECURSIVE Size(_)
Size(shape) == IF shape = <<>> THEN 1 ELSE shape[1] * Size(Tail(shape))

Front(shape) == SubSeq(shape, 1, Len(shape) - 1)

Stride(shape, i) == Size(SubSeq(shape, i + 1, Len(shape)))

Coord(k, shape, i) == ((k - 1) \div Stride(shape, i)) % shape[i]

\* The size of the j-th axis from the right, 1 where the shape has none.
DimR(shape, j) == IF j <= Len(shape) THEN shape[Len(shape) - j + 1] ELSE 1

BroadcastShape(sa, sb) ==
  LET n == Max(Len(sa), Len(sb))
  IN  Strict([i \in 1..n |-> IF DimR(sa, n - i + 1) = 1 THEN DimR(sb, n - i + 1) ELSE DimR(sa, n - i + 1)])

RECURSIVE BOffset(_, _, _, _)
BOffset(k, out, in, i) ==
  IF i = 0 THEN 0
  ELSE BOffset(k, out, in, i - 1)
       + (IF in[i] = 1 THEN 0 ELSE Coord(k, out, i + Len(out) - Len(in)) * Stride(in, i))

\* The element of a tensor of shape in that element k of the broadcast shape out reads.
BIndex(k, out, in) == IF in = out THEN k ELSE 1 + BOffset(k, out, in, Len(in))

Unset == [shape |-> <<>>, data |-> <<>>]

(***************************************************************************)
(* The tensor primitives compute_radiance calls.                           *)
(***************************************************************************)
\* tf.expand_dims(t, -1)
ExpandDims(t) == [shape |-> t.shape \o <<1>>, data |-> t.data]

\* tf.squeeze(t, -1)
Squeeze(t) == [shape |-> Front(t.shape), data |-> t.data]

\* One part of tf.split(t, [3, 1], axis=-1): width channels starting at offset.
TfSplit(t, offset, width) ==
  LET last == t.shape[Len(t.shape)]
      rows == Size(Front(t.shape))
  IN  [shape |-> Front(t.shape) \o <<width>>,
       data  |-> Strict([k \in 1..(rows * width) |->
                    t.data[((k - 1) \div width) * last + offset + ((k - 1) % width) + 1]])]

\* Smallest k for which 2^-k is flushed to 0 (binary64 has no value below 2^-1074).
ExpUnderflow == 1074 + 1

\* tf.exp on an exponent held in units of ln 2.
TfExp(x) ==
  IF x <= 0 - ExpUnderflow THEN NZero
  ELSE IF x < 0 THEN Norm(0 - x, <<1>>)
  ELSE FromInt(2^x)

\* -sigma_a * distances, broadcast.
NegMulOn(s, a, b) ==
  [shape |-> s,
   data  |-> Strict([k \in 1..Size(s) |->
                (0 - a.data[BIndex(k, s, a.shape)]) * b.data[BIndex(k, s, b.shape)]])]

NegMul(a, b) == NegMulOn(BroadcastShape(a.shape, b.shape), a, b)

\* OneMinusExp with the stabilising constant added to alpha itself.
OneMinusExpPlusEps(x) ==
  [shape |-> x.shape,
   data  |-> Strict([k \in 1..Len(x.data) |-> NAdd(NSub(NOne, TfExp(x.data[k])), Epsilon)])]

\* 1. - tf.exp(x)
OneMinusExp(x) == [shape |-> x.shape, data |-> Strict([k \in 1..Len(x.data) |-> NSub(NOne, TfExp(x.data[k]))])]

\* OneMinusPlusEps with the sign of alpha flipped.
OnePlusAlphaPlusEps(a) ==
  [shape |-> a.shape, data |-> Strict([k \in 1..Len(a.data) |-> NAdd(NAdd(NOne, a.data[k]), Epsilon)])]

\* 1. - alpha + 1e-10
OneMinusPlusEps(a) ==
  [shape |-> a.shape, data |-> Strict([k \in 1..Len(a.data) |-> NAdd(NSub(NOne, a.data[k]), Epsilon)])]

\* One step of the scan: out holds the first k - 1 results, x the elements, n the length of
\* the last axis.  Element k starts a row when (k - 1) % n = 0.
ScanStep(out, x, n, k, exclusive) ==
  Append(out,
         IF (k - 1) % n = 0 THEN (IF exclusive THEN NOne ELSE x[k])
         ELSE NMul(out[k - 1], IF exclusive THEN x[k - 1] ELSE x[k]))

RECURSIVE Scan(_, _, _, _)
Scan(x, n, k, exclusive) ==
  IF k = 0 THEN <<>> ELSE ScanStep(Scan(x, n, k - 1, exclusive), x, n, k, exclusive)

\* TfCumprod that always includes the element itself.
TfCumprodInclusive(t, exclusive) ==
  [shape |-> t.shape, data |-> Scan(t.data, t.shape[Len(t.shape)], Len(t.data), FALSE)]

\* The elements of each row of length n in reverse order.
ReverseRows(x, n) == Strict([k \in 1..Len(x) |-> x[k - ((k - 1) % n) + (n - 1 - ((k - 1) % n))]])

\* TfCumprod scanning from the right: the product of the elements after each one.
TfCumprodReverse(t, exclusive) ==
  [shape |-> t.shape,
   data  |-> ReverseRows(Scan(ReverseRows(t.data, t.shape[Len(t.shape)]), t.shape[Len(t.shape)],
                              Len(t.data), exclusive),
                         t.shape[Len(t.shape)])]

\* The last element of the row of each element of x.
RowLast(x, n) == Strict([k \in 1..Len(x) |-> x[k - ((k - 1) % n) + n - 1]])

\* TfCumprod as a reduction: the product of the whole row at every element.
TfReduceProd(t, exclusive) ==
  [shape |-> t.shape,
   data  |-> RowLast(Scan(t.data, t.shape[Len(t.shape)], Len(t.data), FALSE),
                     t.shape[Len(t.shape)])]

\* tf.math.cumprod(t, -1, exclusive=...): the scan runs left to right along the last axis.
TfCumprod(t, exclusive) ==
  [shape |-> t.shape, data |-> Scan(t.data, t.shape[Len(t.shape)], Len(t.data), exclusive)]

\* a * b of two tensors of numbers, broadcast.
TfMulOn(s, a, b) ==
  [shape |-> s,
   data  |-> Strict([k \in 1..Size(s) |->
                NMul(a.data[BIndex(k, s, a.shape)], b.data[BIndex(k, s, b.shape)])])]

TfMul(a, b) == TfMulOn(BroadcastShape(a.shape, b.shape), a, b)

\* weights * rgb: a tensor of numbers times the integer colour channels, broadcast.
TfMulRgbOn(s, a, b) ==
  [shape |-> s,
   data  |-> Strict([k \in 1..Size(s) |->
                NMul(a.data[BIndex(k, s, a.shape)], FromInt(b.data[BIndex(k, s, b.shape)]))])]

TfMulRgb(a, b) == TfMulRgbOn(BroadcastShape(a.shape, b.shape), a, b)

\* The sum over axis p of size n, with inner the number of elements per step on it.
ReduceSumOn(t, p, n, inner) ==
  [shape |-> SubSeq(t.shape, 1, p - 1) \o SubSeq(t.shape, p + 1, Len(t.shape)),
   data  |-> Strict([k \in 1..(Len(t.data) \div n) |->
                NSum(Strict([i \in 1..n |->
                        t.data[((k - 1) \div inner) * n * inner + (i - 1) * inner
                               + ((k - 1) % inner) + 1]]))])]

\* tf.reduce_sum(t, axis) for a negative axis.
ReduceSum(t, axis) ==
  ReduceSumOn(t, Len(t.shape) + axis + 1, t.shape[Len(t.shape) + axis + 1],
              Stride(t.shape, Len(t.shape) + axis + 1))

(***************************************************************************)
(* The checks of tensorflow_graphics.util.shape, on shapes.                *)
(***************************************************************************)
AxisDim(shape, axis) == shape[Len(shape) + axis + 1]

\* shape.check_static(has_dim_equals=(axis, value))
HasDimEquals(shape, axis, value) == Len(shape) >= 0 - axis /\ AxisDim(shape, axis) = value

\* shape.check_static(has_rank_greater_than=rank)
HasRankGreaterThan(shape, rank) == Len(shape) > rank

BatchShape(shape, last_axes) == SubSeq(shape, 1, Len(shape) + last_axes + 1)

IsBroadcastCompatible(sa, sb) ==
  \A j \in 1..Max(Len(sa), Len(sb)) :
    DimR(sa, j) = DimR(sb, j) \/ DimR(sa, j) = 1 \/ DimR(sb, j) = 1

\* shape.compare_batch_dimensions(tensors, last_axes, broadcast_compatible)
CompareBatchDimensions(sa, sb, last_axes, broadcast_compatible) ==
  IF broadcast_compatible
  THEN IsBroadcastCompatible(BatchShape(sa, last_axes), BatchShape(sb, last_axes))
  ELSE BatchShape(sa, last_axes) = BatchShape(sb, last_axes)

\* shape.compare_dimensions(tensors, axes)
CompareDimensions(sa, sb, axes) == AxisDim(sa, axes) = AxisDim(sb, axes)

(***************************************************************************)
(* The numeric statements of compute_radiance, as functions of the values  *)
(* they read.                                                              *)
(***************************************************************************)
\* AlphaOf without the "1. -": the transmittance of the sample instead of its opacity.
AlphaAsTransmittance(sig, dist) ==
  [shape |-> NegMul(sig, dist).shape,
   data  |-> Strict([k \in 1..Len(NegMul(sig, dist).data) |-> TfExp(NegMul(sig, dist).data[k])])]

\* Line 71: alpha = 1. - tf.exp(-sigma_a * distances)
AlphaOf(sig, dist) == OneMinusExp(NegMul(sig, dist))

\* Line 73: weights = alpha * tf.math.cumprod(1. - alpha + 1e-10, -1, exclusive=True)
WeightsOf(a) == TfMul(a, TfCumprod(OneMinusPlusEps(a), TRUE))

\* Line 74: rgb_map = tf.reduce_sum(tf.expand_dims(weights, -1) * rgb, -2)
RgbMapOf(w, colours) == ReduceSum(TfMulRgb(ExpandDims(w), colours), -2)

\* Line 75: acc_map = tf.reduce_sum(weights, -1)
AccMapOf(w) == ReduceSum(w, -1)

\* Lines 74-76: the returned tuple.
ReturnOf(w, colours) == <<RgbMapOf(w, colours), ExpandDims(AccMapOf(w)), w>>

\* Lines 48 and 70-73 on arguments that pass the checks: the weights.
RayWeights(rgba, dist) == WeightsOf(Squeeze(AlphaOf(TfSplit(rgba, 3, 1), ExpandDims(dist))))

\* Lines 48 and 70-76 on arguments that pass the checks: the returned tuple.
Radiance(rgba, dist) == ReturnOf(RayWeights(rgba, dist), TfSplit(rgba, 0, 3))

(***************************************************************************)
(* compute_radiance(rgba_values, distances): the state.                    *)
(***************************************************************************)
VARIABLES
  pc,           \* the statement about to run, "done" after the return, "error" after a raise
  rgba_values,  \* the first argument
  distances,    \* the second argument, rebound by line 48
  rgb,          \* line 70
  sigma_a,      \* line 70
  alpha,        \* lines 71 and 72
  weights,      \* line 73
  rgb_map,      \* line 74
  acc_map,      \* line 75
  result        \* the returned tuple, <<>> while nothing has been returned

vars == <<pc, rgba_values, distances, rgb, sigma_a, alpha, weights, rgb_map, acc_map, result>>

\* A density so large that exp(-sigma * distance) is flushed to 0 for every distance >= 1.
Huge == ExpUnderflow

\* Densities in units of ln 2 (negative ones are accepted by the code).
SigmaSet == {-1, 0, 1, Huge}

DistSet == 0..MaxDist

\* The colour of sample i under colour pattern p.
Colour(p, i) ==
  IF p = 1 THEN [c \in 1..3 |-> IF c = ((i - 1) % 3) + 1 THEN 1 ELSE 0]
  ELSE <<2, i, 1>>

\* One ray of n samples: rgba_values of shape [n, 4], distances of shape [n].
RayRgba(n, p, sig) ==
  [shape |-> <<n, 4>>,
   data  |-> Strict([k \in 1..(4 * n) |->
                IF (k - 1) % 4 = 3 THEN sig[((k - 1) \div 4) + 1]
                ELSE Colour(p, ((k - 1) \div 4) + 1)[((k - 1) % 4) + 1]])]

RayDistances(n, dist) == [shape |-> <<n>>, data |-> Strict([k \in 1..n |-> dist[k]])]

DimSet == {1, 2, 5}

BatchShapes == UNION {[1..n -> DimSet] : n \in 0..2}

SampleShapes == {<<>>, <<4, 5, 3>>} \cup {b \o <<c>> : b \in BatchShapes, c \in {3, 4}}

DistShapes == BatchShapes

\* Tensors of a given shape filled with a fixed pattern of values.
PatternRgba(shape) ==
  [shape |-> shape,
   data  |-> Strict([k \in 1..Size(shape) |->
                IF shape # <<>> /\ shape[Len(shape)] = 4 /\ (k - 1) % 4 = 3
                THEN ((k - 1) \div 4) % 3
                ELSE k % 2])]

PatternDistances(shape) == [shape |-> shape, data |-> Strict([k \in 1..Size(shape) |-> k % 2])]

InitRest ==
  /\ pc = "expand_dims"
  /\ rgb = Unset
  /\ sigma_a = Unset
  /\ alpha = Unset
  /\ weights = Unset
  /\ rgb_map = Unset
  /\ acc_map = Unset
  /\ result = <<>>

\* Single rays with every combination of densities and distances.
InitValues ==
  /\ \E n \in 1..MaxN, p \in 1..2 :
       /\ \E sig \in [1..n -> SigmaSet] : rgba_values = RayRgba(n, p, sig)
       /\ \E dist \in [1..n -> DistSet] : distances = RayDistances(n, dist)
  /\ InitRest

\* Every combination of argument shapes, well-formed or not.
InitShapes ==
  /\ \E s \in SampleShapes : rgba_values = PatternRgba(s)
  /\ \E s \in DistShapes : distances = PatternDistances(s)
  /\ InitRest

Init == InitValues \/ InitShapes

(***************************************************************************)
(* One action per statement of the body.                                   *)
(***************************************************************************)
\* Lines 46-48.
ExpandDistances ==
  /\ pc = "expand_dims"
  /\ distances' = ExpandDims(distances)
  /\ pc' = "check_last_dim"
  /\ UNCHANGED <<rgba_values, rgb, sigma_a, alpha, weights, rgb_map, acc_map, result>>

\* CheckLastDim asking for 3 channels.
CheckLastDimThree ==
  /\ pc = "check_last_dim"
  /\ pc' = IF HasDimEquals(rgba_values.shape, -1, 3) THEN "check_rank_rgba" ELSE "error"
  /\ UNCHANGED <<rgba_values, distances, rgb, sigma_a, alpha, weights, rgb_map, acc_map, result>>

\* Lines 50-51.
CheckLastDim ==
  /\ pc = "check_last_dim"
  /\ pc' = IF HasDimEquals(rgba_values.shape, -1, 4) THEN "check_rank_rgba" ELSE "error"
  /\ UNCHANGED <<rgba_values, distances, rgb, sigma_a, alpha, weights, rgb_map, acc_map, result>>

\* Lines 52-55.
CheckRankRgba ==
  /\ pc = "check_rank_rgba"
  /\ pc' = IF HasRankGreaterThan(rgba_values.shape, 1) THEN "check_rank_distances" ELSE "error"
  /\ UNCHANGED <<rgba_values, distances, rgb, sigma_a, alpha, weights, rgb_map, acc_map, result>>

\* Lines 56-59.
CheckRankDistances ==
  /\ pc = "check_rank_distances"
  /\ pc' = IF HasRankGreaterThan(distances.shape, 1) THEN "compare_batch" ELSE "error"
  /\ UNCHANGED <<rgba_values, distances, rgb, sigma_a, alpha, weights, rgb_map, acc_map, result>>

\* CompareBatch with broadcast_compatible=False.
CompareBatchExact ==
  /\ pc = "compare_batch"
  /\ pc' = IF CompareBatchDimensions(rgba_values.shape, distances.shape, -3, FALSE)
           THEN "compare_dims" ELSE "error"
  /\ UNCHANGED <<rgba_values, distances, rgb, sigma_a, alpha, weights, rgb_map, acc_map, result>>

\* Lines 60-64.
CompareBatch ==
  /\ pc = "compare_batch"
  /\ pc' = IF CompareBatchDimensions(rgba_values.shape, distances.shape, -3, TRUE)
           THEN "compare_dims" ELSE "error"
  /\ UNCHANGED <<rgba_values, distances, rgb, sigma_a, alpha, weights, rgb_map, acc_map, result>>

\* CompareSamples letting a sample axis of size 1 broadcast.
CompareSamplesBroadcast ==
  /\ pc = "compare_dims"
  /\ pc' = IF \/ CompareDimensions(rgba_values.shape, distances.shape, -2)
              \/ AxisDim(rgba_values.shape, -2) = 1
              \/ AxisDim(distances.shape, -2) = 1
           THEN "split" ELSE "error"
  /\ UNCHANGED <<rgba_values, distances, rgb, sigma_a, alpha, weights, rgb_map, acc_map, result>>

\* Lines 65-68.
CompareSamples ==
  /\ pc = "compare_dims"
  /\ pc' = IF CompareDimensions(rgba_values.shape, distances.shape, -2) THEN "split" ELSE "error"
  /\ UNCHANGED <<rgba_values, distances, rgb, sigma_a, alpha, weights, rgb_map, acc_map, result>>

\* Line 70.
Split ==
  /\ pc = "split"
  /\ rgb' = TfSplit(rgba_values, 0, 3)
  /\ sigma_a' = TfSplit(rgba_values, 3, 1)
  /\ pc' = "alpha"
  /\ UNCHANGED <<rgba_values, distances, alpha, weights, rgb_map, acc_map, result>>

\* Line 71.
ComputeAlpha ==
  /\ pc = "alpha"
  /\ alpha' = AlphaOf(sigma_a, distances)
  /\ pc' = "squeeze"
  /\ UNCHANGED <<rgba_values, distances, rgb, sigma_a, weights, rgb_map, acc_map, result>>

\* Line 72.
SqueezeAlpha ==
  /\ pc = "squeeze"
  /\ alpha' = Squeeze(alpha)
  /\ pc' = "weights"
  /\ UNCHANGED <<rgba_values, distances, rgb, sigma_a, weights, rgb_map, acc_map, result>>

\* Line 73.
ComputeWeights ==
  /\ pc = "weights"
  /\ weights' = WeightsOf(alpha)
  /\ pc' = "rgb_map"
  /\ UNCHANGED <<rgba_values, distances, rgb, sigma_a, alpha, rgb_map, acc_map, result>>

\* Line 74.
ComputeRgbMap ==
  /\ pc = "rgb_map"
  /\ rgb_map' = RgbMapOf(weights, rgb)
  /\ pc' = "acc_map"
  /\ UNCHANGED <<rgba_values, distances, rgb, sigma_a, alpha, weights, acc_map, result>>

\* Line 75.
ComputeAccMap ==
  /\ pc = "acc_map"
  /\ acc_map' = AccMapOf(weights)
  /\ pc' = "return"
  /\ UNCHANGED <<rgba_values, distances, rgb, sigma_a, alpha, weights, rgb_map, result>>

\* Return without the trailing axis on the opacity.
ReturnWithoutExpandDims ==
  /\ pc = "return"
  /\ result' = <<rgb_map, acc_map, weights>>
  /\ pc' = "done"
  /\ UNCHANGED <<rgba_values, distances, rgb, sigma_a, alpha, weights, rgb_map, acc_map>>

\* Line 76.
Return ==
  /\ pc = "return"
  /\ result' = <<rgb_map, ExpandDims(acc_map), weights>>
  /\ pc' = "done"
  /\ UNCHANGED <<rgba_values, distances, rgb, sigma_a, alpha, weights, rgb_map, acc_map>>

Next ==
  \/ ExpandDistances
  \/ CheckLastDim
  \/ CheckRankRgba
  \/ CheckRankDistances
  \/ CompareBatch
  \/ CompareSamples
  \/ Split
  \/ ComputeAlpha
  \/ SqueezeAlpha
  \/ ComputeWeights
  \/ ComputeRgbMap
  \/ ComputeAccMap
  \/ Return

Spec == Init /\ [][Next]_vars

(***************************************************************************)
(* Reading a finished call ray by ray.  The outputs hold one ray per       *)
(* element of their batch shape; ray r reads the rows of the two arguments *)
(* that broadcasting assigns to it.                                        *)
(***************************************************************************)
NSamples == AxisDim(rgba_values.shape, -2)

RayBatch == Front(result[3].shape)

Rays == 1..Size(RayBatch)

Samples == 1..NSamples

RgbaRow(r) == BIndex(r, RayBatch, BatchShape(rgba_values.shape, -3))

DistRow(r) == BIndex(r, RayBatch, BatchShape(distances.shape, -3))

SigmaAt(r, i) == rgba_values.data[(RgbaRow(r) - 1) * NSamples * 4 + (i - 1) * 4 + 4]

RgbAt(r, i, c) == rgba_values.data[(RgbaRow(r) - 1) * NSamples * 4 + (i - 1) * 4 + c]

DistAt(r, i) == distances.data[(DistRow(r) - 1) * NSamples + i]

WeightAt(r, i) == result[3].data[(r - 1) * NSamples + i]

OpacityAt(r) == result[2].data[r]

ColorAt(r, c) == result[1].data[(r - 1) * 3 + c]

\* alpha_i = 1 - exp(-sigma_i * distance_i)
RefAlpha(r, i) == NSub(NOne, TfExp(0 - SigmaAt(r, i) * DistAt(r, i)))

RECURSIVE RefT(_, _)
\* T_i = product over j < i of (1 - alpha_j + eps); the first sample has T = 1.
RefT(r, i) ==
  IF i = 1 THEN NOne
  ELSE NMul(RefT(r, i - 1), NAdd(NSub(NOne, RefAlpha(r, i - 1)), Epsilon))

RECURSIVE SumWeights(_, _)
\* sum over i <= n of the returned weight_i of ray r
SumWeights(r, n) == IF n = 0 THEN NZero ELSE NAdd(SumWeights(r, n - 1), WeightAt(r, n))

RECURSIVE SumColour(_, _, _)
\* sum over i <= n of the returned weight_i times channel c of rgb_i
SumColour(r, c, n) ==
  IF n = 0 THEN NZero
  ELSE NAdd(SumColour(r, c, n - 1), NMul(WeightAt(r, n), FromInt(RgbAt(r, n, c))))

RayNonNegative(r) == \A i \in Samples : SigmaAt(r, i) >= 0 /\ DistAt(r, i) >= 0

RayAllZeroDensity(r) == \A i \in Samples : SigmaAt(r, i) = 0

(***************************************************************************)
(* C1: for every ray and every sample i, the returned weight is            *)
(* alpha_i * T_i with T_i the exclusive left-to-right prefix product of    *)
(* (1 - alpha_j + eps) over j < i, T = 1 at the first sample (so the first *)
(* weight is alpha itself).                                                *)
(***************************************************************************)
C1_WeightIsAlphaTimesPrefix ==
  pc = "done" =>
    \A r \in Rays :
      /\ \A i \in Samples : WeightAt(r, i) = NMul(RefAlpha(r, i), RefT(r, i))
      /\ WeightAt(r, 1) = RefAlpha(r, 1)

\* A finished ray whose second sample is partly occluded by the first and still weighs in.
C1_Witness ==
  /\ pc = "done"
  /\ NSamples >= 2
  /\ \E r \in Rays :
       /\ RefT(r, 2) # NOne
       /\ WeightAt(r, 2) # NZero
       /\ WeightAt(r, 2) # RefAlpha(r, 2)

(***************************************************************************)
(* C2: the returned opacity is the sum over the sample axis of the         *)
(* returned weights, kept as a trailing axis of size 1, and each of the 3  *)
(* returned colour channels is the sum over i of weight_i * rgb_i of that  *)
(* channel alone.                                                          *)
(***************************************************************************)
C2_OutputsConsistent ==
  pc = "done" =>
    /\ result[3].shape = RayBatch \o <<NSamples>>
    /\ result[2].shape = RayBatch \o <<1>>
    /\ result[1].shape = RayBatch \o <<3>>
    /\ \A r \in Rays :
         /\ OpacityAt(r) = SumWeights(r, NSamples)
         /\ \A c \in 1..3 : ColorAt(r, c) = SumColour(r, c, NSamples)

\* A finished ray of several samples with non-zero weights and a colour of distinct channels.
C2_Witness ==
  /\ pc = "done"
  /\ NSamples >= 2
  /\ \E r \in Rays :
       /\ \A i \in Samples : WeightAt(r, i) # NZero
       /\ ColorAt(r, 1) # ColorAt(r, 2)
       /\ OpacityAt(r) # WeightAt(r, 1)

(***************************************************************************)
(* C8: a ray whose densities are all 0 has all weights 0, opacity 0 and    *)
(* the zero colour, whatever its distances and colours; and any sample     *)
(* with distance 0 has alpha 0 and weight 0.                               *)
(***************************************************************************)
C8_ZeroDensityZeroOutput ==
  pc = "done" =>
    \A r \in Rays :
      /\ RayAllZeroDensity(r) =>
           /\ \A i \in Samples : WeightAt(r, i) = NZero
           /\ OpacityAt(r) = NZero
           /\ \A c \in 1..3 : ColorAt(r, c) = NZero
      /\ \A i \in Samples :
           DistAt(r, i) = 0 =>
             alpha.data[(r - 1) * NSamples + i] = NZero /\ WeightAt(r, i) = NZero

\* A finished call with a ray of zero densities at non-zero distance and colour, and a
\* sample of non-zero density at distance 0.
C8_Witness ==
  /\ pc = "done"
  /\ \E r \in Rays :
       /\ RayAllZeroDensity(r)
       /\ \E i \in Samples : DistAt(r, i) > 0 /\ RgbAt(r, i, 1) > 0
  /\ \E r \in Rays : \E i \in Samples : SigmaAt(r, i) # 0 /\ DistAt(r, i) = 0

(***************************************************************************)
(* The shape preconditions, read off the two arguments.                    *)
(***************************************************************************)
\* The shape of the distances argument, before line 48 appends its unit axis.
ArgDistShape == IF pc = "expand_dims" THEN distances.shape ELSE Front(distances.shape)

ArgRgbaBatch == SubSeq(rgba_values.shape, 1, Len(rgba_values.shape) - 2)

ArgDistBatch == SubSeq(ArgDistShape, 1, Len(ArgDistShape) - 1)

BadLastDim == Len(rgba_values.shape) = 0 \/ rgba_values.shape[Len(rgba_values.shape)] # 4

BadRankRgba == Len(rgba_values.shape) <= 1

BadRankDistances == Len(ArgDistShape) + 1 <= 1

\* Some pair of aligned batch sizes differs with neither of the two being 1.
BadBatch ==
  /\ ~BadRankRgba
  /\ ~BadRankDistances
  /\ \E j \in 1..Max(Len(ArgRgbaBatch), Len(ArgDistBatch)) :
       /\ DimR(ArgRgbaBatch, j) # DimR(ArgDistBatch, j)
       /\ DimR(ArgRgbaBatch, j) # 1
       /\ DimR(ArgDistBatch, j) # 1

BadSampleCount ==
  /\ ~BadRankRgba
  /\ ~BadRankDistances
  /\ rgba_values.shape[Len(rgba_values.shape) - 1] # ArgDistShape[Len(ArgDistShape)]

PreconditionViolated ==
  BadLastDim \/ BadRankRgba \/ BadRankDistances \/ BadBatch \/ BadSampleCount

CheckStages ==
  {"expand_dims", "check_last_dim", "check_rank_rgba", "check_rank_distances",
   "compare_batch", "compare_dims"}

NumericUntouched ==
  /\ rgb = Unset
  /\ sigma_a = Unset
  /\ alpha = Unset
  /\ weights = Unset
  /\ rgb_map = Unset
  /\ acc_map = Unset
  /\ result = <<>>

(***************************************************************************)
(* C3: when any shape precondition is violated the call never leaves the   *)
(* checks except by raising, returns nothing, and no numeric statement     *)
(* (split, exp, cumulative product, reduction) has run; a raised call has  *)
(* run none either.  Samples of shape [4, 5, 3] are among the inputs, with *)
(* every shape of distances.                                               *)
(***************************************************************************)
C3_ViolationRaisesBeforeNumericWork ==
  /\ PreconditionViolated => pc \in CheckStages \cup {"error"} /\ NumericUntouched
  /\ pc = "error" => NumericUntouched
  /\ rgba_values.shape = <<4, 5, 3>> => pc \in {"expand_dims", "check_last_dim", "error"}

\* The call on samples of shape [4, 5, 3] and distances of shape [5, 5] has raised.
C3_Witness ==
  /\ pc = "error"
  /\ rgba_values.shape = <<4, 5, 3>>
  /\ ArgDistShape = <<5, 5>>

(***************************************************************************)
(* C4: the call gets past its checks only if the sample axis of the        *)
(* samples (axis -2) and of the distances (last axis) have equal size;     *)
(* unequal sizes raise even when one of them is 1.                         *)
(***************************************************************************)
C4_SampleCountsMustBeEqual ==
  /\ pc \notin CheckStages \cup {"error"} =>
       rgba_values.shape[Len(rgba_values.shape) - 1] = ArgDistShape[Len(ArgDistShape)]
  /\ BadSampleCount /\ pc \notin CheckStages => pc = "error" /\ result = <<>>

\* A raised call whose only violated precondition is a sample count of 1 against 2.
C4_Witness ==
  /\ pc = "error"
  /\ ~BadLastDim
  /\ ~BadBatch
  /\ BadSampleCount
  /\ rgba_values.shape[Len(rgba_values.shape) - 1] = 2
  /\ ArgDistShape[Len(ArgDistShape)] = 1

(***************************************************************************)
(* C5: with the other preconditions met, the call is accepted exactly when *)
(* every aligned pair of batch sizes is equal or has a 1; on success the   *)
(* three outputs have the larger size of each pair on that axis: shapes    *)
(* [B.., 3], [B.., 1] and [B.., N].  So 1 against 5 succeeds with size 5   *)
(* and 2 against 5 raises.                                                 *)
(***************************************************************************)
BroadcastBatch ==
  LET n == Max(Len(ArgRgbaBatch), Len(ArgDistBatch))
  IN  [i \in 1..n |-> Max(DimR(ArgRgbaBatch, n - i + 1), DimR(ArgDistBatch, n - i + 1))]

C5_BatchBroadcast ==
  /\ pc \notin CheckStages \cup {"error"} => ~BadBatch
  /\ pc = "error" /\ ~BadLastDim /\ ~BadRankRgba /\ ~BadRankDistances /\ ~BadSampleCount
       => BadBatch
  /\ pc = "done" =>
       /\ result[1].shape = BroadcastBatch \o <<3>>
       /\ result[2].shape = BroadcastBatch \o <<1>>
       /\ result[3].shape = BroadcastBatch \o <<NSamples>>

\* A finished call on samples with a batch axis of size 5 and distances with size 1 there.
C5_Witness ==
  /\ pc = "done"
  /\ ArgRgbaBatch = <<5>>
  /\ ArgDistBatch = <<1>>
  /\ result[3].shape = <<5, NSamples>>
  /\ NSamples = 2

(***************************************************************************)
(* Running the function on one ray of a finished call, as given or with    *)
(* its samples changed.                                                    *)
(***************************************************************************)
RayRgbaOf(r) ==
  [shape |-> <<NSamples, 4>>,
   data  |-> Strict([k \in 1..(4 * NSamples) |->
                rgba_values.data[(RgbaRow(r) - 1) * NSamples * 4 + k]])]

RayDistOf(r) ==
  [shape |-> <<NSamples>>,
   data  |-> Strict([k \in 1..NSamples |-> distances.data[(DistRow(r) - 1) * NSamples + k]])]

WithSigma(rgba, i, s) == [rgba EXCEPT !.data[(i - 1) * 4 + 4] = s]

WithDistance(dist, i, d) == [dist EXCEPT !.data[i] = d]

WithoutColour(rgba) ==
  [shape |-> rgba.shape,
   data  |-> Strict([k \in 1..Len(rgba.data) |-> IF (k - 1) % 4 = 3 THEN rgba.data[k] ELSE 0])]

FirstSamples(rgba, m) == [shape |-> <<m, 4>>, data |-> SubSeq(rgba.data, 1, 4 * m)]

FirstDistances(dist, m) == [shape |-> <<m>>, data |-> SubSeq(dist.data, 1, m)]

SamplePermutations(n) == {p \in [1..n -> 1..n] : \A a, b \in 1..n : a # b => p[a] # p[b]}

\* Position j of the permuted ray holds sample p[j].
PermuteRgba(rgba, p) ==
  [shape |-> rgba.shape,
   data  |-> Strict([k \in 1..Len(rgba.data) |->
                rgba.data[(p[((k - 1) \div 4) + 1] - 1) * 4 + ((k - 1) % 4) + 1]])]

PermuteDist(dist, p) == [shape |-> dist.shape, data |-> Strict([k \in 1..Len(dist.data) |-> dist.data[p[k]]])]

SwapFirstTwo == [j \in Samples |-> IF j = 1 THEN 2 ELSE IF j = 2 THEN 1 ELSE j]

OnePlusEps == NAdd(NOne, Epsilon)

(***************************************************************************)
(* C6, as claimed: for a ray of non-negative densities and distances every *)
(* returned weight lies in [0, 1 + eps] and the weights sum to at most     *)
(* 1 + eps.                                                                *)
(***************************************************************************)
C6_WeightBoundAsClaimed ==
  pc = "done" =>
    \A r \in Rays :
      RayNonNegative(r) =>
        /\ \A i \in Samples : NLe(NZero, WeightAt(r, i)) /\ NLe(WeightAt(r, i), OnePlusEps)
        /\ NLe(OpacityAt(r), OnePlusEps)

(***************************************************************************)
(* C6, amended: for a ray of non-negative densities and distances the      *)
(* weight of the i-th sample (counting from 0) lies in [0, (1 + eps)^i]    *)
(* and the weights of a ray of N >= 1 samples sum to at most               *)
(* (1 + eps)^(N-1).                                                        *)
(***************************************************************************)
C6_WeightBound ==
  pc = "done" =>
    \A r \in Rays :
      RayNonNegative(r) =>
        /\ \A i \in Samples :
             NLe(NZero, WeightAt(r, i)) /\ NLe(WeightAt(r, i), NPow(OnePlusEps, i - 1))
        /\ NLe(OpacityAt(r), NPow(OnePlusEps, NSamples - 1))
        /\ NLe(SumWeights(r, NSamples), NPow(OnePlusEps, NSamples - 1))

\* A finished ray of non-negative inputs with a weight above 1 + eps.
C6_Witness ==
  /\ pc = "done"
  /\ \E r \in Rays :
       /\ RayNonNegative(r)
       /\ \E i \in Samples : NLt(OnePlusEps, WeightAt(r, i))

(***************************************************************************)
(* C7, as claimed: for a ray of non-negative densities and distances,      *)
(* raising the density of any one sample, the rest held fixed, never       *)
(* lowers the returned opacity.                                            *)
(***************************************************************************)
OpacityWith(r, i, s) == Radiance(WithSigma(RayRgbaOf(r), i, s), RayDistOf(r))[2].data[1]

C7_MonotoneAsClaimed ==
  pc = "done" =>
    \A r \in Rays :
      RayNonNegative(r) =>
        \A i \in Samples : \A s \in SigmaSet :
          s > SigmaAt(r, i) => NLe(OpacityAt(r), OpacityWith(r, i, s))

(***************************************************************************)
(* C7, amended: for a ray of non-negative densities and distances,         *)
(* raising the density of the last or of the second-to-last sample, the    *)
(* rest held fixed, never lowers the returned opacity.                     *)
(***************************************************************************)
C7_MonotoneInLastTwoSamples ==
  pc = "done" =>
    \A r \in Rays :
      RayNonNegative(r) =>
        \A i \in Samples : \A s \in SigmaSet :
          i >= NSamples - 1 /\ s > SigmaAt(r, i) => NLe(OpacityAt(r), OpacityWith(r, i, s))

\* A finished ray of three or more samples whose opacity rises strictly with the density
\* of its second-to-last sample.
C7_Witness ==
  /\ pc = "done"
  /\ NSamples >= 3
  /\ \E r \in Rays :
       /\ RayNonNegative(r)
       /\ \E s \in SigmaSet :
            /\ s > SigmaAt(r, NSamples - 1)
            /\ NLt(OpacityAt(r), OpacityWith(r, NSamples - 1, s))

(***************************************************************************)
(* C9: permuting the samples of a ray together with their distances        *)
(* leaves weights (re-aligned to the samples), colour and opacity          *)
(* unchanged when every density is 0, for every permutation; and it        *)
(* changes them otherwise: when the first sample has alpha # 0 and the     *)
(* second has alpha # eps, swapping the two changes the weight of the      *)
(* first sample, and the colour in every channel the first sample has and  *)
(* the second lacks.                                                       *)
(***************************************************************************)
PermutedRadiance(r, p) == Radiance(PermuteRgba(RayRgbaOf(r), p), PermuteDist(RayDistOf(r), p))

\* out, the result on the permuted ray, is the result on ray r with its weights re-ordered.
SameUpTo(r, p, out) ==
  /\ \A j \in Samples : out[3].data[j] = WeightAt(r, p[j])
  /\ \A c \in 1..3 : out[1].data[c] = ColorAt(r, c)
  /\ out[2].data[1] = OpacityAt(r)

\* out, the result on ray r with its first two samples swapped, differs from the result
\* on ray r.
SwapChanges(r, out) ==
  /\ out[3].data[2] # WeightAt(r, 1)
  /\ \A c \in 1..3 : RgbAt(r, 1, c) # 0 /\ RgbAt(r, 2, c) = 0 => out[1].data[c] # ColorAt(r, c)

C9_OrderSensitivity ==
  pc = "done" =>
    \A r \in Rays :
      /\ RayAllZeroDensity(r) =>
           \A p \in SamplePermutations(NSamples) : SameUpTo(r, p, PermutedRadiance(r, p))
      /\ NSamples >= 2 /\ RefAlpha(r, 1) # NZero /\ RefAlpha(r, 2) # Epsilon =>
           SwapChanges(r, PermutedRadiance(r, SwapFirstTwo))

\* A finished ray whose weights and colour both change when its first two samples swap.
C9_Witness ==
  /\ pc = "done"
  /\ NSamples >= 2
  /\ \E r \in Rays :
       /\ RefAlpha(r, 1) # NZero
       /\ RefAlpha(r, 2) # Epsilon
       /\ SwapChanges(r, PermutedRadiance(r, SwapFirstTwo))
       /\ \E c \in 1..3 : RgbAt(r, 1, c) # 0 /\ RgbAt(r, 2, c) = 0

(***************************************************************************)
(* C10: the weight of sample i of a ray depends only on the densities and  *)
(* distances of samples 0..i of that ray: it is what the function returns  *)
(* for that ray alone, for the ray cut after any sample m >= i (so two     *)
(* rays that agree up to sample i agree on its weight, and appending       *)
(* samples changes no earlier weight), for the ray with the density or     *)
(* distance of its last sample changed, and for the ray with its colours   *)
(* removed.                                                                *)
(***************************************************************************)
WeightsOn(rgba, dist) == RayWeights(rgba, dist).data

PrefixDependent(rgba, dist, w) ==
  /\ WeightsOn(rgba, dist) = w
  /\ WeightsOn(WithoutColour(rgba), dist) = w
  /\ \A m \in 1..Len(w) :
       WeightsOn(FirstSamples(rgba, m), FirstDistances(dist, m)) = SubSeq(w, 1, m)
  /\ \A s \in SigmaSet :
       SubSeq(WeightsOn(WithSigma(rgba, Len(w), s), dist), 1, Len(w) - 1)
         = SubSeq(w, 1, Len(w) - 1)
  /\ \A d \in DistSet :
       SubSeq(WeightsOn(rgba, WithDistance(dist, Len(w), d)), 1, Len(w) - 1)
         = SubSeq(w, 1, Len(w) - 1)

C10_PrefixDependence ==
  pc = "done" =>
    \A r \in Rays : PrefixDependent(RayRgbaOf(r), RayDistOf(r), [i \in Samples |-> WeightAt(r, i)])

\* A finished batch of several rays of several samples, two rays with different weights,
\* and a last sample that weighs in.
C10_Witness ==
  /\ pc = "done"
  /\ NSamples >= 2
  /\ Size(RayBatch) >= 2
  /\ \E r, q \in Rays : WeightAt(r, 1) # WeightAt(q, 1)
  /\ \E r \in Rays : WeightAt(r, NSamples) # NZero /\ WeightAt(r, 1) # NZero

====
